---- MODULE Spec2Model ----
(***************************************************************************)
(* Model of the two scripts of aws-helper-scripts:                         *)
(*   cost_savings/analyze_dynamo_provisions.py  (the cost advisor)         *)
(*   cleanup/add_tags_to_snapshots.py           (the snapshot tagger)      *)
(*                                                                         *)
(* Money is counted in units of 1e-8 dollar, so every price of the script  *)
(* is an integer.  Provisioned-capacity averages are counted in            *)
(* thousandths of a capacity unit, so "+ .999" is exact.                   *)
(***************************************************************************)
EXTENDS Integers, Sequences, FiniteSets, TLC

VARIABLES
    \* ---- cost advisor ----
    a_pc,                       \* position in the table loop
    table,                      \* index of the table being processed
    pricing_model,
    writes, reads,              \* datapoints of the consumed-capacity metrics
    sum_writes, sum_writes_month_one, sum_writes_month_two, sum_writes_month_three,
    sum_reads, sum_reads_month_one, sum_reads_month_two, sum_reads_month_three,
    month_one_price_on_demand, month_two_price_on_demand, month_three_price_on_demand,
    provisioned_read_list, provisioned_write_list,
    provisioned_price,
    output,                     \* log records emitted for the table being processed
    \* ---- snapshot tagger ----
    t_pc,                       \* position in the script
    snapshots,                  \* the listing describe_snapshots returned (line 37)
    instance,                   \* what describe_instances returns for the instance
    images,                     \* the listing describe_images returned (line 90)
    tags,                       \* the tags each snapshot holds in the account
    si, ii, mi,                 \* loop positions: snapshot, image, mapping
    lastWrite,                  \* the last create_tags call
    failure,                    \* the last failure of a collaborator call
    exit_code                   \* << >> while running, then the process's exit code

avars == << a_pc, table, pricing_model, writes, reads,
            sum_writes, sum_writes_month_one, sum_writes_month_two, sum_writes_month_three,
            sum_reads, sum_reads_month_one, sum_reads_month_two, sum_reads_month_three,
            month_one_price_on_demand, month_two_price_on_demand, month_three_price_on_demand,
            provisioned_read_list, provisioned_write_list, provisioned_price, output >>

tvars == << t_pc, snapshots, instance, images, tags, si, ii, mi,
            lastWrite, failure, exit_code >>

vars == << avars, tvars >>

----------------------------------------------------------------------------
(* Bounds of the model *)

NumTables == 2
MaxProvLen == 2
NumSnapshots == 2
MaxImages == 2

----------------------------------------------------------------------------
(* Constants of analyze_dynamo_provisions.py *)

\* dynamo_pricing, in 1e-8 dollar
provisioned_write == 65000
provisioned_read == 13000
on_demand_write == 125
on_demand_read == 25
minimum_provisioned_price == provisioned_write + provisioned_read

\* hours of a month, the literal 720 of calculate_provisioned_price
HoursInMonth == 720
\* the literal 2592000 of the decision tree
UnitThreshold == 2592000
\* days of the window: three_months_ago = yesterday - 2160 hours, one datapoint a day
WindowDays == 90
\* the literals of the bucket tests "day < 30", "day < 60", "day < 90"
MonthOneEnd == 30
MonthTwoEnd == 60
MonthThreeEnd == 90

----------------------------------------------------------------------------
(* Inputs: what the collaborators (DynamoDB, CloudWatch) may return *)

Capacities == {0, 5}

\* daily consumed units of the first, second and third 30 days of the window
Profiles == { <<100, 100, 100>>, <<40000, 40000, 40000>>,
              <<0, 90000, 10>>, <<90000, 90000, 90000>> }

\* days of the window for which CloudWatch holds no datapoint
MissingChoices == { {}, {29}, 0..44 }

Days == 0 .. (WindowDays - 1)

\* a sparse sequence of daily datapoints, ordered by date
Datapoints(profile, missing) ==
    LET present == Days \ missing
        nth(i)  == CHOOSE d \in present : Cardinality({e \in present : e < d}) = i - 1
    IN  [i \in 1..Cardinality(present) |->
            [day |-> nth(i), Sum |-> profile[(nth(i) \div 30) + 1]]]

DatapointChoices == { Datapoints(p, m) : p \in Profiles, m \in MissingChoices }

\* daily averages of provisioned capacity, in thousandths of a unit
ProvValues == {1, 4000}

RECURSIVE SeqsUpTo(_, _)
SeqsUpTo(S, n) ==
    IF n = 0 THEN { << >> }
    ELSE LET shorter == SeqsUpTo(S, n - 1)
         IN  shorter \cup { Append(s, x) : s \in shorter, x \in S }

ProvLists == SeqsUpTo(ProvValues, MaxProvLen)

----------------------------------------------------------------------------
(* Pure functions of analyze_dynamo_provisions.py *)

calculate_on_demand_price(w, r) == (w * on_demand_write) + (r * on_demand_read)

get_table_pricing_model(read_capacity, write_capacity) ==
    IF read_capacity = 0 /\ write_capacity = 0 THEN "on-demand" ELSE "provisioned"

RECURSIVE SumSeq(_)
SumSeq(s) == IF s = << >> THEN 0 ELSE Head(s) + SumSeq(Tail(s))

\* int(statistics.mean(list) + .999) for a non-empty list of thousandths
IntMeanPlus999(list) ==
    (SumSeq(list) + 999 * Len(list)) \div (1000 * Len(list))

\* the price the script gives the read capacity (line 86)
ProvisionedReadPrice(average_provisioned_reads) ==
    average_provisioned_reads * provisioned_write * HoursInMonth

\* the price the script gives the write capacity (line 104)
ProvisionedWritePrice(average_provisioned_writes) ==
    average_provisioned_writes * provisioned_write * HoursInMonth

\* statistics.mean raises StatisticsError on an empty list
ProvisionedRaises(read_list, write_list) ==
    read_list = << >> \/ write_list = << >>

calculate_provisioned_price(read_list, write_list) ==
    ProvisionedReadPrice(IntMeanPlus999(read_list))
      + ProvisionedWritePrice(IntMeanPlus999(write_list))

\* the bucket the loop adds the sample with list index "day" to (0: none)
BucketOfIndex(day) ==
    IF day < MonthOneEnd THEN 1
    ELSE IF day < MonthTwoEnd THEN 2
    ELSE IF day < MonthThreeEnd THEN 3
    ELSE 0

\* the sum of f[lo..hi], halving the range
RECURSIVE SumRange(_, _, _)
SumRange(f, lo, hi) ==
    IF lo > hi THEN 0
    ELSE IF lo = hi THEN f[lo]
    ELSE LET mid == (lo + hi) \div 2
         IN  SumRange(f, lo, mid) + SumRange(f, mid + 1, hi)

\* the aggregation loop with three independent tests instead of if / elif / elif:
\* a sample of the first 30 also lands in the later buckets
Aggregate_IfNotElif(dps) ==
    LET upto(n) == [i \in 1..Len(dps) |-> IF i - 1 < n THEN dps[i].Sum ELSE 0]
        all     == [i \in 1..Len(dps) |-> dps[i].Sum]
    IN  [ total |-> SumRange(all, 1, Len(dps)),
          one   |-> SumRange(upto(MonthOneEnd), 1, Len(dps)),
          two   |-> SumRange(upto(MonthTwoEnd), 1, Len(dps)),
          three |-> SumRange(upto(MonthThreeEnd), 1, Len(dps)) ]

\* the aggregation loop over the datapoints: the loop's counter "day" starts at 0
\* and grows by one per datapoint, so the i-th datapoint is handled with day = i - 1
Aggregate(dps) ==
    LET into(b) == [i \in 1..Len(dps) |->
                       IF BucketOfIndex(i - 1) = b THEN dps[i].Sum ELSE 0]
        all     == [i \in 1..Len(dps) |-> dps[i].Sum]
    IN  [ total |-> SumRange(all, 1, Len(dps)),
          one   |-> SumRange(into(1), 1, Len(dps)),
          two   |-> SumRange(into(2), 1, Len(dps)),
          three |-> SumRange(into(3), 1, Len(dps)) ]

\* the threshold step 3 of the decision tree compares the monthly costs with
Step3Threshold == minimum_provisioned_price

\* the decision tree with step 4 satisfied by any one month instead of all three
Branch_AnyMonth(sw, sr, w1, w2, w3, r1, r2, r3, p1, p2, p3, prov) ==
    IF sw < UnitThreshold /\ sr < UnitThreshold THEN 1
    ELSE IF /\ w1 < UnitThreshold /\ w2 < UnitThreshold /\ w3 < UnitThreshold
            /\ r1 < UnitThreshold /\ r2 < UnitThreshold /\ r3 < UnitThreshold THEN 2
    ELSE IF p1 < Step3Threshold /\ p2 < Step3Threshold /\ p3 < Step3Threshold THEN 3
    ELSE IF p1 < prov \/ p2 < prov \/ p3 < prov THEN 4
    ELSE 5

\* the branch of the decision tree that is taken (lines 218-260)
Branch(sw, sr, w1, w2, w3, r1, r2, r3, p1, p2, p3, prov) ==
    IF sw < UnitThreshold /\ sr < UnitThreshold THEN 1
    ELSE IF /\ w1 < UnitThreshold /\ w2 < UnitThreshold /\ w3 < UnitThreshold
            /\ r1 < UnitThreshold /\ r2 < UnitThreshold /\ r3 < UnitThreshold THEN 2
    ELSE IF p1 < Step3Threshold /\ p2 < Step3Threshold /\ p3 < Step3Threshold THEN 3
    ELSE IF p1 < prov /\ p2 < prov /\ p3 < prov THEN 4
    ELSE 5

\* the recommendation a branch logs, with the aggregates its log lines carry
Recommendation(branch, model, sw, sr) ==
    LET verdict == IF model = "on-demand"
                   THEN [kind |-> "OnDemandConfirmedOptimal", level |-> "info"]
                   ELSE [kind |-> "OnDemandWouldSave", level |-> "warning"]
    IN  IF branch \in {1, 2, 3}
        THEN [kind |-> verdict.kind, level |-> verdict.level, branch |-> branch,
              writes |-> sw, reads |-> sr]
        ELSE IF branch = 4
        THEN [kind |-> "ProvisionedExceedsOnDemand", level |-> "warning", branch |-> 4,
              writes |-> sw, reads |-> sr]
        ELSE [kind |-> "NoSuggestion", level |-> "warning", branch |-> 5,
              writes |-> sw, reads |-> sr]

----------------------------------------------------------------------------
(* Inputs of add_tags_to_snapshots.py: what EC2 may return *)

\* "Created by CreateImage", character by character
CreatedByCreateImage ==
    << "C","r","e","a","t","e","d"," ","b","y"," ",
       "C","r","e","a","t","e","I","m","a","g","e" >>

InstanceId == << "i", "-", "1" >>

\* the descriptions a snapshot may carry
SnapshotDescriptions ==
    { CreatedByCreateImage \o << "(" >> \o InstanceId \o << ")", " ", "f", "o", "r" >>,
      << "b", "a", "c", "k", "u", "p" >> }

\* the Name tag a snapshot may hold before the run (<< >>: no tags at all)
InitialTags == { << >>, [Name |-> "foo"] }

\* the instance, as describe_instances returns it: without a Tags key, with tags
\* but no Name, with a Name tag
InstanceChoices ==
    { [InstanceId |-> InstanceId],
      [InstanceId |-> InstanceId, Tags |-> << [Key |-> "env", Value |-> "prod"] >>],
      [InstanceId |-> InstanceId,
       Tags |-> << [Key |-> "env", Value |-> "prod"], [Key |-> "Name", Value |-> "bar"] >>] }

SnapshotIdOf(i) == "snap-" \o ToString(i)
SnapshotIds == { SnapshotIdOf(i) : i \in 1..NumSnapshots }

\* the block device mappings an image may have: without Ebs key, with an Ebs that
\* names no snapshot, with an Ebs that names one
MappingChoices ==
    { << [DeviceName |-> "sdb"], [Ebs |-> [SnapshotId |-> SnapshotIdOf(1)]] >>,
      << [Ebs |-> [SnapshotId |-> SnapshotIdOf(1)]],
         [Ebs |-> [VolumeSize |-> 8]],
         [Ebs |-> [SnapshotId |-> SnapshotIdOf(NumSnapshots)]] >> }

ImageDescriptions == { "", "web" }

ImageChoices(i) ==
    { [ImageId |-> "ami-" \o ToString(i), Description |-> d,
       ImageLocation |-> "ami-" \o ToString(i) \o "/img",
       BlockDeviceMappings |-> m] : d \in ImageDescriptions, m \in MappingChoices }

RECURSIVE ImageLists(_)
ImageLists(n) ==
    IF n = 0 THEN { << >> }
    ELSE LET shorter == ImageLists(n - 1)
         IN  shorter \cup { Append(l, im) : l \in {x \in shorter : Len(x) = n - 1},
                                            im \in ImageChoices(n) }

\* outcomes of a collaborator call: success, botocore's ClientError, anything else
Outcomes == { "ok", "ClientError", "Exception" }

\* outcomes of a call of the second loop, where no handler tells the errors apart
UnhandledOutcomes == { "ok", "raises" }

----------------------------------------------------------------------------
(* Pure parts of add_tags_to_snapshots.py *)

\* description.startswith(prefix)
StartsWith(description, prefix) ==
    /\ Len(description) >= Len(prefix)
    /\ SubSeq(description, 1, Len(prefix)) = prefix

\* text.split(")")[0]
BeforeParen(text) ==
    LET at == { i \in 1..Len(text) : text[i] = ")" }
    IN  IF at = {} THEN text
        ELSE SubSeq(text, 1, (CHOOSE i \in at : \A j \in at : i <= j) - 1)

\* line 49: description[23:].split(")")[0]
InstanceIdOf(description) == BeforeParen(SubSeq(description, 24, Len(description)))

\* lines 41-45 and 124-128: does the tag list hold a Name tag
HasNameTag(tagmap) == "Name" \in DOMAIN tagmap

\* the listing's snapshot record: the Tags key is there only when it has tags
SnapshotRecord(i, description, tagmap) ==
    IF DOMAIN tagmap = {}
    THEN [SnapshotId |-> SnapshotIdOf(i), Description |-> description]
    ELSE [SnapshotId |-> SnapshotIdOf(i), Description |-> description, Tags |-> tagmap]

\* lines 41-45: has_name_tag from the listing
ListedHasNameTag(snapshot) ==
    IF "Tags" \in DOMAIN snapshot THEN HasNameTag(snapshot.Tags) ELSE FALSE

\* the key chosen without looking at has_name_tag
InstanceTagKey_AlwaysName(has_name_tag) == "Name"

\* lines 60-62: the key the instance's name is written under
InstanceTagKey(has_name_tag) == IF has_name_tag THEN "instance_name" ELSE "Name"

\* lines 55-73: the tags of the create_tags call for a found instance, << >> when
\* the instance has no Tags key or no Name tag (tag keys are unique per resource)
InstanceDerivedTags(inst, has_name_tag) ==
    IF "Tags" \in DOMAIN inst
    THEN LET names == SelectSeq(inst.Tags, LAMBDA t : t.Key = "Name")
         IN  IF names = << >> THEN << >>
             ELSE << [Key |-> InstanceTagKey(has_name_tag), Value |-> names[1].Value] >>
    ELSE << >>

\* line 97
NamesSnapshot(mapping) ==
    /\ "Ebs" \in DOMAIN mapping
    /\ "SnapshotId" \in DOMAIN mapping.Ebs

\* the Name tag built from the description even when it is empty
AmiNameTags_NoFallback(has_name_tag, image) ==
    IF ~ has_name_tag
    THEN << [Key |-> "Name", Value |-> "copied from AMI: " \o image.Description] >>
    ELSE << >>

\* lines 130-145: the Name tag added for a snapshot that has none
AmiNameTags(has_name_tag, image) ==
    IF ~ has_name_tag
    THEN IF Len(image.Description) > 0
         THEN << [Key |-> "Name", Value |-> "copied from AMI: " \o image.Description] >>
         ELSE << [Key |-> "Name", Value |-> "copied from AMI: " \o image.ImageLocation] >>
    ELSE << >>

\* lines 107-145: new_tags
AmiDerivedTags(has_name_tag, image) ==
    << [Key |-> "ami_image_id", Value |-> image.ImageId],
       [Key |-> "ami_description", Value |-> image.Description],
       [Key |-> "ami_image_location", Value |-> image.ImageLocation] >>
    \o AmiNameTags(has_name_tag, image)

KeysOf(taglist) == { taglist[i].Key : i \in 1..Len(taglist) }

ValueOf(taglist, key) ==
    taglist[CHOOSE i \in 1..Len(taglist) : taglist[i].Key = key].Value

\* create_tags: an upsert by key
CreateTags(tagmap, taglist) ==
    [k \in DOMAIN tagmap \cup KeysOf(taglist) |->
        IF k \in KeysOf(taglist) THEN ValueOf(taglist, k) ELSE tagmap[k]]

----------------------------------------------------------------------------
(* The script add_tags_to_snapshots.py *)

NoWrite == [SnapshotId |-> "", pass |-> "none", had_name |-> FALSE, Tags |-> << >>]

\* the tagger before it runs; also its state throughout a run of the cost advisor
TaggerIdle ==
    /\ t_pc = "idle"
    /\ snapshots = << >>
    /\ instance = [InstanceId |-> InstanceId]
    /\ images = << >>
    /\ tags = [s \in SnapshotIds |-> << >>]
    /\ si = 1 /\ ii = 1 /\ mi = 1
    /\ lastWrite = NoWrite
    /\ failure = "none"
    /\ exit_code = << >>

\* the cost advisor's variables throughout a run of the tagger
AdvisorIdle ==
    /\ a_pc = "idle"
    /\ table = 1
    /\ pricing_model = "unset"
    /\ writes = << >> /\ reads = << >>
    /\ sum_writes = 0 /\ sum_writes_month_one = 0
    /\ sum_writes_month_two = 0 /\ sum_writes_month_three = 0
    /\ sum_reads = 0 /\ sum_reads_month_one = 0
    /\ sum_reads_month_two = 0 /\ sum_reads_month_three = 0
    /\ month_one_price_on_demand = 0
    /\ month_two_price_on_demand = 0
    /\ month_three_price_on_demand = 0
    /\ provisioned_read_list = << >> /\ provisioned_write_list = << >>
    /\ provisioned_price = 0
    /\ output = << >>

\* lines 34-37: the listing of the owned snapshots, before the first loop
TaggerInit ==
    /\ t_pc = "snapshots"
    /\ \E d \in [1..NumSnapshots -> SnapshotDescriptions],
          t \in [1..NumSnapshots -> InitialTags] :
          /\ snapshots = [i \in 1..NumSnapshots |-> SnapshotRecord(i, d[i], t[i])]
          /\ tags = [s \in SnapshotIds |->
                        t[CHOOSE i \in 1..NumSnapshots : SnapshotIdOf(i) = s]]
    /\ instance \in InstanceChoices
    /\ images = << >>
    /\ si = 1 /\ ii = 1 /\ mi = 1
    /\ lastWrite = NoWrite
    /\ failure = "none"
    /\ exit_code = << >>
    /\ AdvisorIdle

\* lines 39-84: one iteration of the loop over the snapshots
TagSnapshot ==
    /\ t_pc = "snapshots"
    /\ si <= Len(snapshots)
    /\ LET snapshot     == snapshots[si]
           has_name_tag == ListedHasNameTag(snapshot)
           description  == snapshot.Description
           new_tags     == InstanceDerivedTags(instance, has_name_tag)
       IN  IF ~ StartsWith(description, CreatedByCreateImage)
           THEN /\ si' = si + 1
                /\ UNCHANGED << t_pc, tags, lastWrite, failure, exit_code >>
           ELSE \E lookup \in Outcomes, write \in Outcomes :
                  \* the instance is found only if it is the one that exists
                  /\ lookup = "ok" => InstanceIdOf(description) = instance.InstanceId
                  /\ IF lookup = "ClientError"
                     THEN \* lines 77-79: logged at debug level, the loop goes on
                          /\ failure' = "lookup ClientError"
                          /\ si' = si + 1
                          /\ UNCHANGED << t_pc, tags, lastWrite, exit_code >>
                     ELSE IF lookup = "Exception"
                     THEN \* lines 81-84: exit(1)
                          /\ failure' = "lookup Exception"
                          /\ t_pc' = "exit"
                          /\ exit_code' = << 1 >>
                          /\ UNCHANGED << si, tags, lastWrite >>
                     ELSE IF new_tags = << >>
                     THEN /\ si' = si + 1
                          /\ UNCHANGED << t_pc, tags, lastWrite, failure, exit_code >>
                     ELSE IF write = "ok"
                     THEN \* lines 64-73
                          /\ tags' = [tags EXCEPT ![snapshot.SnapshotId] =
                                         CreateTags(@, new_tags)]
                          /\ lastWrite' = [SnapshotId |-> snapshot.SnapshotId,
                                           pass |-> "instance",
                                           had_name |-> HasNameTag(tags[snapshot.SnapshotId]),
                                           Tags |-> new_tags]
                          /\ si' = si + 1
                          /\ UNCHANGED << t_pc, failure, exit_code >>
                     ELSE IF write = "ClientError"
                     THEN \* create_tags is inside the try: lines 77-79
                          /\ failure' = "create_tags ClientError"
                          /\ si' = si + 1
                          /\ UNCHANGED << t_pc, tags, lastWrite, exit_code >>
                     ELSE \* create_tags is inside the try: lines 81-84
                          /\ failure' = "create_tags Exception"
                          /\ t_pc' = "exit"
                          /\ exit_code' = << 1 >>
                          /\ UNCHANGED << si, tags, lastWrite >>
    /\ UNCHANGED << snapshots, instance, images, ii, mi >>
    /\ UNCHANGED avars

\* lines 89-90: the listing of the owned images, after the first loop
DescribeImages ==
    /\ t_pc = "snapshots"
    /\ si > Len(snapshots)
    /\ images' \in ImageLists(MaxImages)
    /\ t_pc' = "images"
    /\ UNCHANGED << snapshots, instance, tags, si, ii, mi, lastWrite, failure, exit_code >>
    /\ UNCHANGED avars

\* lines 96-152: one mapping of the image at hand; no handler surrounds the calls
TagFromMapping ==
    /\ t_pc = "images"
    /\ ii <= Len(images)
    /\ mi <= Len(images[ii].BlockDeviceMappings)
    /\ LET image   == images[ii]
           mapping == image.BlockDeviceMappings[mi]
       IN  IF ~ NamesSnapshot(mapping)
           THEN /\ mi' = mi + 1
                /\ UNCHANGED << t_pc, tags, lastWrite, failure, exit_code >>
           ELSE \E load \in UnhandledOutcomes, write \in UnhandledOutcomes :
                  LET snapshot     == mapping.Ebs.SnapshotId
                      has_name_tag == HasNameTag(tags[snapshot])
                      new_tags     == AmiDerivedTags(has_name_tag, image)
                  IN  IF load # "ok"
                      THEN \* line 125: snapshot.tags loads the snapshot and raises
                           /\ failure' = "snapshot.tags raises"
                           /\ t_pc' = "traceback"
                           /\ exit_code' = << 1 >>
                           /\ UNCHANGED << mi, tags, lastWrite >>
                      ELSE IF write # "ok"
                      THEN \* line 150: create_tags raises
                           /\ failure' = "snapshot.create_tags raises"
                           /\ t_pc' = "traceback"
                           /\ exit_code' = << 1 >>
                           /\ UNCHANGED << mi, tags, lastWrite >>
                      ELSE /\ tags' = [tags EXCEPT ![snapshot] = CreateTags(@, new_tags)]
                           /\ lastWrite' = [SnapshotId |-> snapshot,
                                            pass |-> "ami",
                                            had_name |-> HasNameTag(tags[snapshot]),
                                            Tags |-> new_tags]
                           /\ mi' = mi + 1
                           /\ UNCHANGED << t_pc, failure, exit_code >>
    /\ UNCHANGED << snapshots, instance, images, si, ii >>
    /\ UNCHANGED avars

\* line 93: the loop over the images takes the next image
NextImage ==
    /\ t_pc = "images"
    /\ ii <= Len(images)
    /\ mi > Len(images[ii].BlockDeviceMappings)
    /\ ii' = ii + 1
    /\ mi' = 1
    /\ UNCHANGED << t_pc, snapshots, instance, images, tags, si, lastWrite, failure,
                    exit_code >>
    /\ UNCHANGED avars

\* the end of the script
TaggerDone ==
    /\ t_pc = "images"
    /\ ii > Len(images)
    /\ t_pc' = "done"
    /\ exit_code' = << 0 >>
    /\ UNCHANGED << snapshots, instance, images, tags, si, ii, mi, lastWrite, failure >>
    /\ UNCHANGED avars

TaggerNext ==
    \/ TagSnapshot
    \/ DescribeImages
    \/ TagFromMapping
    \/ NextImage
    \/ TaggerDone

TaggerSpec == TaggerInit /\ [][TaggerNext]_vars

----------------------------------------------------------------------------
(* The table loop of analyze_dynamo_provisions.py *)

AdvisorInit ==
    /\ a_pc = "describe"
    /\ table = 1
    /\ pricing_model = "unset"
    /\ writes = << >> /\ reads = << >>
    /\ sum_writes = 0 /\ sum_writes_month_one = 0
    /\ sum_writes_month_two = 0 /\ sum_writes_month_three = 0
    /\ sum_reads = 0 /\ sum_reads_month_one = 0
    /\ sum_reads_month_two = 0 /\ sum_reads_month_three = 0
    /\ month_one_price_on_demand = 0
    /\ month_two_price_on_demand = 0
    /\ month_three_price_on_demand = 0
    /\ provisioned_read_list = << >> /\ provisioned_write_list = << >>
    /\ provisioned_price = 0
    /\ output = << >>
    /\ TaggerIdle

\* lines 142-144: describe_table and get_table_pricing_model
DescribeTable ==
    /\ a_pc = "describe"
    /\ table <= NumTables
    /\ \E rc \in Capacities, wc \in Capacities :
          pricing_model' = get_table_pricing_model(rc, wc)
    /\ a_pc' = "write_metrics"
    /\ UNCHANGED << table, writes, reads,
                    sum_writes, sum_writes_month_one, sum_writes_month_two,
                    sum_writes_month_three,
                    sum_reads, sum_reads_month_one, sum_reads_month_two,
                    sum_reads_month_three,
                    month_one_price_on_demand, month_two_price_on_demand,
                    month_three_price_on_demand,
                    provisioned_read_list, provisioned_write_list,
                    provisioned_price, output >>
    /\ UNCHANGED tvars

\* lines 146-175: fetch the consumed writes and run the aggregation loop
AggregateWrites ==
    /\ a_pc = "write_metrics"
    /\ \E dps \in DatapointChoices :
          LET acc == Aggregate(dps)
          IN  /\ writes' = dps
              /\ sum_writes' = acc.total
              /\ sum_writes_month_one' = acc.one
              /\ sum_writes_month_two' = acc.two
              /\ sum_writes_month_three' = acc.three
    /\ a_pc' = "read_metrics"
    /\ UNCHANGED << table, pricing_model, reads,
                    sum_reads, sum_reads_month_one, sum_reads_month_two,
                    sum_reads_month_three,
                    month_one_price_on_demand, month_two_price_on_demand,
                    month_three_price_on_demand,
                    provisioned_read_list, provisioned_write_list,
                    provisioned_price, output >>
    /\ UNCHANGED tvars

\* lines 179-205: fetch the consumed reads and run the aggregation loop
AggregateReads ==
    /\ a_pc = "read_metrics"
    /\ \E dps \in DatapointChoices :
          LET acc == Aggregate(dps)
          IN  /\ reads' = dps
              /\ sum_reads' = acc.total
              /\ sum_reads_month_one' = acc.one
              /\ sum_reads_month_two' = acc.two
              /\ sum_reads_month_three' = acc.three
    /\ a_pc' = "on_demand_price"
    /\ UNCHANGED << table, pricing_model, writes,
                    sum_writes, sum_writes_month_one, sum_writes_month_two,
                    sum_writes_month_three,
                    month_one_price_on_demand, month_two_price_on_demand,
                    month_three_price_on_demand,
                    provisioned_read_list, provisioned_write_list,
                    provisioned_price, output >>
    /\ UNCHANGED tvars

\* lines 209-211
OnDemandPrices ==
    /\ a_pc = "on_demand_price"
    /\ month_one_price_on_demand' =
          calculate_on_demand_price(sum_writes_month_one, sum_reads_month_one)
    /\ month_two_price_on_demand' =
          calculate_on_demand_price(sum_writes_month_two, sum_reads_month_two)
    /\ month_three_price_on_demand' =
          calculate_on_demand_price(sum_writes_month_three, sum_reads_month_three)
    /\ a_pc' = "provisioned_price"
    /\ UNCHANGED << table, pricing_model, writes, reads,
                    sum_writes, sum_writes_month_one, sum_writes_month_two,
                    sum_writes_month_three,
                    sum_reads, sum_reads_month_one, sum_reads_month_two,
                    sum_reads_month_three,
                    provisioned_read_list, provisioned_write_list,
                    provisioned_price, output >>
    /\ UNCHANGED tvars

\* line 213: calculate_provisioned_price(table); statistics.mean of an empty list
\* raises StatisticsError, which nothing catches: the script ends with a traceback
CalculateProvisionedPrice ==
    /\ a_pc = "provisioned_price"
    /\ \E rl \in ProvLists, wl \in ProvLists :
          /\ provisioned_read_list' = rl
          /\ provisioned_write_list' = (IF rl = << >> THEN << >> ELSE wl)
          /\ IF ProvisionedRaises(rl, wl)
             THEN /\ a_pc' = "crashed"
                  /\ UNCHANGED provisioned_price
             ELSE /\ a_pc' = "decide"
                  /\ provisioned_price' = calculate_provisioned_price(rl, wl)
    /\ UNCHANGED << table, pricing_model, writes, reads,
                    sum_writes, sum_writes_month_one, sum_writes_month_two,
                    sum_writes_month_three,
                    sum_reads, sum_reads_month_one, sum_reads_month_two,
                    sum_reads_month_three,
                    month_one_price_on_demand, month_two_price_on_demand,
                    month_three_price_on_demand, output >>
    /\ UNCHANGED tvars

\* lines 218-260: the decision tree
Decide ==
    /\ a_pc = "decide"
    /\ output' = Append(output,
          Recommendation(
              Branch(sum_writes, sum_reads,
                     sum_writes_month_one, sum_writes_month_two, sum_writes_month_three,
                     sum_reads_month_one, sum_reads_month_two, sum_reads_month_three,
                     month_one_price_on_demand, month_two_price_on_demand,
                     month_three_price_on_demand, provisioned_price),
              pricing_model, sum_writes, sum_reads))
    /\ a_pc' = "next"
    /\ UNCHANGED << table, pricing_model, writes, reads,
                    sum_writes, sum_writes_month_one, sum_writes_month_two,
                    sum_writes_month_three,
                    sum_reads, sum_reads_month_one, sum_reads_month_two,
                    sum_reads_month_three,
                    month_one_price_on_demand, month_two_price_on_demand,
                    month_three_price_on_demand,
                    provisioned_read_list, provisioned_write_list,
                    provisioned_price >>
    /\ UNCHANGED tvars

\* line 139: the for loop takes the next table, or the script ends
NextTable ==
    /\ a_pc = "next"
    /\ table' = table + 1
    /\ a_pc' = IF table < NumTables THEN "describe" ELSE "done"
    /\ pricing_model' = "unset"
    /\ writes' = << >> /\ reads' = << >>
    /\ sum_writes' = 0 /\ sum_writes_month_one' = 0
    /\ sum_writes_month_two' = 0 /\ sum_writes_month_three' = 0
    /\ sum_reads' = 0 /\ sum_reads_month_one' = 0
    /\ sum_reads_month_two' = 0 /\ sum_reads_month_three' = 0
    /\ month_one_price_on_demand' = 0
    /\ month_two_price_on_demand' = 0
    /\ month_three_price_on_demand' = 0
    /\ provisioned_read_list' = << >> /\ provisioned_write_list' = << >>
    /\ provisioned_price' = 0
    /\ output' = << >>
    /\ UNCHANGED tvars

AdvisorNext ==
    \/ DescribeTable
    \/ AggregateWrites
    \/ AggregateReads
    \/ OnDemandPrices
    \/ CalculateProvisionedPrice
    \/ Decide
    \/ NextTable

AdvisorSpec == AdvisorInit /\ [][AdvisorNext]_vars

----------------------------------------------------------------------------
(* Properties of the snapshot tagger, stated for TaggerSpec *)

TagSet(taglist) == { << taglist[i].Key, taglist[i].Value >> : i \in 1..Len(taglist) }

\* C1: over the whole run (instance pass, then AMI pass, several images naming the
\* same snapshot included) no step changes or removes the Name tag of a snapshot
\* that has one; a write decided for a snapshot that has a Name tag carries no Name
\* key, and in the instance pass it carries the instance's name under instance_name.
C1_NameNeverOverwritten ==
    /\ [][ \A s \in SnapshotIds :
              HasNameTag(tags[s]) =>
                  HasNameTag(tags'[s]) /\ tags'[s].Name = tags[s].Name ]_vars
    /\ [](lastWrite.had_name => "Name" \notin KeysOf(lastWrite.Tags))
    /\ []((lastWrite.pass = "instance" /\ lastWrite.had_name) =>
              /\ KeysOf(lastWrite.Tags) = {"instance_name"}
              /\ \E i \in 1..Len(instance.Tags) :
                    /\ instance.Tags[i].Key = "Name"
                    /\ TagSet(lastWrite.Tags) =
                          { << "instance_name", instance.Tags[i].Value >> })

\* a snapshot named foo got instance_name from the instance pass and was then
\* tagged from an image, keeping Name = foo
C1_Witness ==
    /\ lastWrite.pass = "ami"
    /\ lastWrite.had_name
    /\ "instance_name" \in DOMAIN tags[lastWrite.SnapshotId]
    /\ tags[lastWrite.SnapshotId].instance_name = "bar"
    /\ tags[lastWrite.SnapshotId].Name = "foo"

\* the tags C8 expects for a mapping of image im that names a snapshot holding tagmap
ExpectedAmiTags(im, tagmap) ==
    { << "ami_image_id", im.ImageId >>,
      << "ami_description", im.Description >>,
      << "ami_image_location", im.ImageLocation >> }
    \cup (IF "Name" \in DOMAIN tagmap THEN {}
          ELSE { << "Name", "copied from AMI: " \o
                     (IF im.Description = "" THEN im.ImageLocation
                                             ELSE im.Description) >> })

\* C8: every step that passes an EBS mapping naming a snapshot writes to that
\* snapshot exactly ami_image_id, ami_description and ami_image_location of the
\* image, plus Name iff the snapshot holds no Name tag at that moment, with the
\* description, or the image location when the description is empty; the snapshot
\* holds these tags afterwards.
C8_AmiDerivedTags ==
    [][ (t_pc = "images" /\ mi' = mi + 1
            /\ NamesSnapshot(images[ii].BlockDeviceMappings[mi])) =>
         LET im  == images[ii]
             sid == im.BlockDeviceMappings[mi].Ebs.SnapshotId
             exp == ExpectedAmiTags(im, tags[sid])
         IN  /\ lastWrite'.SnapshotId = sid
             /\ lastWrite'.pass = "ami"
             /\ TagSet(lastWrite'.Tags) = exp
             /\ Len(lastWrite'.Tags) = Cardinality(exp)
             /\ \A kv \in exp : kv[1] \in DOMAIN tags'[sid] /\ tags'[sid][kv[1]] = kv[2]
      ]_vars

\* an image without description named a snapshot without Name tag
C8_Witness ==
    /\ lastWrite.pass = "ami"
    /\ ~ lastWrite.had_name
    /\ << "ami_description", "" >> \in TagSet(lastWrite.Tags)
    /\ << "Name", "copied from AMI: ami-1/img" >> \in TagSet(lastWrite.Tags)
    /\ tags[lastWrite.SnapshotId].Name = "copied from AMI: ami-1/img"

\* C9: a failure while processing one resource never aborts the run, but for an
\* unexpected error inside the instance-lookup try block, which ends the run with
\* exit code 1; a ClientError there only skips the snapshot; every other run ends
\* with exit code 0.
C9_FailurePropagation ==
    /\ t_pc # "traceback"
    /\ t_pc = "exit" =>
          /\ failure \in {"lookup Exception", "create_tags Exception"}
          /\ exit_code = << 1 >>
    /\ failure \in {"lookup ClientError", "create_tags ClientError"} =>
          t_pc \in {"snapshots", "images", "done"}
    /\ exit_code = << 1 >> => t_pc = "exit"
    /\ t_pc = "done" => exit_code = << 0 >>

----------------------------------------------------------------------------
(* Properties of the cost advisor, stated for AdvisorSpec *)

\* the processing of the table at hand has ended: with its decision, or with the
\* traceback of calculate_provisioned_price
TableEnded == a_pc \in {"next", "crashed"}

\* C2: a table whose two 90-day sums are below 2,592,000 is reported by step 1,
\* as OnDemandConfirmedOptimal when its mode is on-demand and as OnDemandWouldSave
\* otherwise, with the two sums attached, whatever the provisioned datapoints are.
C2_StepOneFires ==
    (TableEnded /\ sum_writes < UnitThreshold /\ sum_reads < UnitThreshold) =>
        /\ Len(output) = 1
        /\ output[1].branch = 1
        /\ output[1].kind = (IF pricing_model = "on-demand"
                             THEN "OnDemandConfirmedOptimal" ELSE "OnDemandWouldSave")
        /\ output[1].writes = sum_writes
        /\ output[1].reads = sum_reads

\* the sum of the samples whose date lies in [from, to)
SumByDate(dps, from, to) ==
    SumRange([i \in 1..Len(dps) |->
                 IF from <= dps[i].day /\ dps[i].day < to THEN dps[i].Sum ELSE 0],
             1, Len(dps))

WritesAggregated ==
    a_pc \in {"read_metrics", "on_demand_price", "provisioned_price", "decide",
              "next", "crashed"}

ReadsAggregated ==
    a_pc \in {"on_demand_price", "provisioned_price", "decide", "next", "crashed"}

\* C3: each sample is added to the monthly bucket of its elapsed-day index from
\* the window start (boundaries at day 30 and day 60); a missing day shifts no
\* later sample into another bucket.
C3_BucketByElapsedDay ==
    /\ WritesAggregated =>
          /\ sum_writes_month_one = SumByDate(writes, 0, 30)
          /\ sum_writes_month_two = SumByDate(writes, 30, 60)
          /\ sum_writes_month_three = SumByDate(writes, 60, 90)
    /\ ReadsAggregated =>
          /\ sum_reads_month_one = SumByDate(reads, 0, 30)
          /\ sum_reads_month_two = SumByDate(reads, 30, 60)
          /\ sum_reads_month_three = SumByDate(reads, 60, 90)

\* C4: an empty sequence of provisioned datapoints does not end the run with a
\* statistics error: the table still gets its recommendation and the loop goes on.
C4_EmptyIsInsufficientData ==
    (provisioned_read_list = << >> \/ provisioned_write_list = << >>) =>
        a_pc # "crashed"

\* ceil(mean(list)) of a non-empty list of thousandths
CeilMean(list) ==
    (SumSeq(list) + 1000 * Len(list) - 1) \div (1000 * Len(list))

\* C5: for non-empty datapoint sequences the estimate is
\* (ceil(mean reads) x read price + ceil(mean writes) x write price) x 720.
C5_ProvisionedEstimate ==
    a_pc \in {"decide", "next"} =>
        provisioned_price =
            (CeilMean(provisioned_read_list) * provisioned_read
               + CeilMean(provisioned_write_list) * provisioned_write) * HoursInMonth

Cond1 == sum_writes < UnitThreshold /\ sum_reads < UnitThreshold

Cond2 ==
    /\ sum_writes_month_one < UnitThreshold
    /\ sum_writes_month_two < UnitThreshold
    /\ sum_writes_month_three < UnitThreshold
    /\ sum_reads_month_one < UnitThreshold
    /\ sum_reads_month_two < UnitThreshold
    /\ sum_reads_month_three < UnitThreshold

\* all three monthly on-demand costs are below the monthly price floor
Cond3 ==
    LET floor == minimum_provisioned_price * HoursInMonth
    IN  /\ calculate_on_demand_price(sum_writes_month_one, sum_reads_month_one) < floor
        /\ calculate_on_demand_price(sum_writes_month_two, sum_reads_month_two) < floor
        /\ calculate_on_demand_price(sum_writes_month_three, sum_reads_month_three) < floor

Cond4 ==
    /\ calculate_on_demand_price(sum_writes_month_one, sum_reads_month_one)
          < provisioned_price
    /\ calculate_on_demand_price(sum_writes_month_two, sum_reads_month_two)
          < provisioned_price
    /\ calculate_on_demand_price(sum_writes_month_three, sum_reads_month_three)
          < provisioned_price

\* C6: where steps 1 and 2 do not match, step 3 classifies the table exactly when
\* the three monthly on-demand costs are below minimum_provisioned_price x 720, and
\* the amount step 3 compares them with is that monthly amount.
C6_PriceFloorIsMonthly ==
    (a_pc = "next" /\ ~ Cond1 /\ ~ Cond2) =>
        /\ (output[1].branch = 3) <=> Cond3
        /\ Step3Threshold = minimum_provisioned_price * HoursInMonth

\* C7: a table whose decision tree is reached gets exactly one recommendation,
\* that of the first of the branches 1..5 whose condition holds;
\* ProvisionedExceedsOnDemand exactly when branches 1-3 do not match and the three
\* monthly costs are below the provisioned estimate, whatever the mode;
\* NoSuggestion exactly when no earlier branch matches.
C7_FirstMatchingBranch ==
    a_pc = "next" =>
        /\ Len(output) = 1
        /\ LET holds == [i \in 1..5 |->
                           CASE i = 1 -> Cond1 [] i = 2 -> Cond2 [] i = 3 -> Cond3
                             [] i = 4 -> Cond4 [] OTHER -> TRUE]
               r == output[1]
           IN  /\ holds[r.branch]
               /\ \A i \in 1..5 : i < r.branch => ~ holds[i]
               /\ r.branch = 1 => r.kind \in {"OnDemandConfirmedOptimal", "OnDemandWouldSave"}
               /\ (r.kind = "ProvisionedExceedsOnDemand") <=>
                     (~ Cond1 /\ ~ Cond2 /\ ~ Cond3 /\ Cond4)
               /\ (r.kind = "NoSuggestion") <=>
                     (~ Cond1 /\ ~ Cond2 /\ ~ Cond3 /\ ~ Cond4)
               /\ (r.kind \in {"OnDemandConfirmedOptimal", "OnDemandWouldSave"}) =>
                     (r.kind = "OnDemandConfirmedOptimal") <=> (pricing_model = "on-demand")

\* an on-demand table is told that provisioned capacity would have cost more
C7_Witness ==
    /\ a_pc = "next"
    /\ Len(output) = 1
    /\ output[1].kind = "ProvisionedExceedsOnDemand"
    /\ pricing_model = "on-demand"
    /\ ~ Cond1 /\ ~ Cond2

SumOfSamples(dps) == SumRange([i \in 1..Len(dps) |-> dps[i].Sum], 1, Len(dps))

\* C10: after each aggregation loop the three monthly buckets add up to the 90-day
\* sum, which is the sum of all samples: no sample is counted in two buckets.
C10_BucketsPartitionTheSum ==
    /\ WritesAggregated =>
          /\ sum_writes = SumOfSamples(writes)
          /\ sum_writes_month_one + sum_writes_month_two + sum_writes_month_three
                = sum_writes
    /\ ReadsAggregated =>
          /\ sum_reads = SumOfSamples(reads)
          /\ sum_reads_month_one + sum_reads_month_two + sum_reads_month_three
                = sum_reads

\* a full window of samples, every bucket of both metrics filled
C10_Witness ==
    /\ ReadsAggregated
    /\ Len(writes) = WindowDays /\ Len(reads) = WindowDays
    /\ sum_writes_month_one > 0 /\ sum_writes_month_two > 0 /\ sum_writes_month_three > 0
    /\ sum_reads_month_one > 0 /\ sum_reads_month_two > 0 /\ sum_reads_month_three > 0

====
